---- MODULE Spec2Model ----
(***************************************************************************)
(* Model of src/main.py: the indicator methods of OANDATrader              *)
(* (calculate_sma, calculate_rsi), the request built by                    *)
(* create_market_order and one evaluation cycle, simple_trading_strategy.  *)
(*                                                                         *)
(* Reading of the source.  src/main.py does not compile as it stands:      *)
(* lines 194-202 are a block of print statements pasted at column 0 in the *)
(* middle of the `if rsi < 30 and sma_20 > sma_50:` statement, and line    *)
(* 161 prints `rsi` before it is assigned.  These lines only print; the    *)
(* model follows the properly indented if / elif / else of lines 191-193   *)
(* and 203-233 and treats every print as a step without effect on state.   *)
(*                                                                         *)
(* Numbers.  Closes are integers (price ticks).  Every quotient the code   *)
(* forms (a mean, rs, the RSI, price * 0.99) is kept as an exact fraction  *)
(* in lowest terms, so rounding of binary floating point is not modelled.  *)
(***************************************************************************)
EXTENDS Integers, Sequences, FiniteSets, TLC

\* feed          what get_candles answers: [ok, candles], candles of [c, complete]
\* pc            the exit the last cycle took ("idle" before the first cycle)
\* closes, sma_20, sma_50, rsi, current_price
\*               the locals of the last cycle (Unset where it returned earlier)
\* posted        the order requests the last cycle posted to the gateway
\* ncycles       the cycles run so far
\* prevCloses, prevPosted
\*               closes and posted of the cycle before the last
\* call          the last direct call of an indicator method and its result
VARIABLES feed, pc, closes, sma_20, sma_50, rsi, current_price, posted,
          ncycles, prevCloses, prevPosted, call

vars == <<feed, pc, closes, sma_20, sma_50, rsi, current_price, posted,
          ncycles, prevCloses, prevPosted, call>>

(* ------------------------------ bounds -------------------------------- *)
MaxPrice == 23
MaxCycles == 2

(* -------------------------- program constants ------------------------- *)
RsiPeriod == 14
SmaShort == 20
SmaLong == 50
CandleCount == 50
MinCloses == 20
Oversold == 30
Overbought == 70
OrderUnits == 1000

(* ------------------------- values and fractions ----------------------- *)
Abs(x) == IF x < 0 THEN -x ELSE x

RECURSIVE Gcd(_, _)
Gcd(a, b) == IF b = 0 THEN a ELSE Gcd(b, a % b)

\* Python's None
None == [kind |-> "None", n |-> 0, d |-> 1]

\* a local that no statement has assigned yet
Unset == [kind |-> "unset", n |-> 0, d |-> 1]

\* the exception Python raises on x / 0
ZeroDivisionError == [kind |-> "ZeroDivisionError", n |-> 0, d |-> 1]

\* the number n/d (d /= 0), in lowest terms with a positive denominator
Num(n, d) ==
    LET g == Gcd(Abs(n), Abs(d))
        s == IF d < 0 THEN -1 ELSE 1
    IN  [kind |-> "num", n |-> s * (n \div g), d |-> s * (d \div g)]

IsNum(v) == v.kind = "num"
Add(a, b) == Num(a.n * b.d + b.n * a.d, a.d * b.d)
Sub(a, b) == Num(a.n * b.d - b.n * a.d, a.d * b.d)
Mul(a, b) == Num(a.n * b.n, a.d * b.d)
Div(a, b) == IF b.n = 0 THEN ZeroDivisionError ELSE Num(a.n * b.d, a.d * b.n)
Less(a, b) == a.n * b.d < b.n * a.d

\* Python truth value of a number-or-None: None and 0 are false
Truthy(v) == IsNum(v) /\ v.n # 0

\* sum(xs) of a list of integers
RECURSIVE Sum(_)
Sum(xs) == IF xs = <<>> THEN 0 ELSE Head(xs) + Sum(Tail(xs))

\* xs[-k:] for k > 0
LastK(xs, k) == IF Len(xs) <= k THEN xs ELSE SubSeq(xs, Len(xs) - k + 1, Len(xs))

\* str(i) of an integer, as the sequence of its characters
DigitChar == <<"0", "1", "2", "3", "4", "5", "6", "7", "8", "9">>

RECURSIVE NatStr(_)
NatStr(k) == IF k < 10 THEN <<DigitChar[k + 1]>>
             ELSE Append(NatStr(k \div 10), DigitChar[(k % 10) + 1])

Str(i) == IF i < 0 THEN <<"-">> \o NatStr(-i) ELSE NatStr(i)

(* ------------------------------ indicators ---------------------------- *)
calculate_sma(prices, period) ==
    IF Len(prices) >= period THEN Num(Sum(LastK(prices, period)), period)
    ELSE None

\* lines 152-154, with an exception raised by a division passed on
RsiFromAverages(avg_gain, avg_loss) ==
    LET rs == Div(avg_gain, avg_loss)
    IN  IF ~IsNum(rs) THEN ZeroDivisionError
        ELSE LET q == Div(Num(100, 1), Add(Num(1, 1), rs))
             IN  IF ~IsNum(q) THEN ZeroDivisionError
                 ELSE Sub(Num(100, 1), q)

\* lines 142-147: the mean gain and the mean loss of the last `period` deltas
Averages(prices, period) ==
    LET deltas == [i \in 1..(Len(prices) - 1) |-> prices[i + 1] - prices[i]]
        gains == [i \in 1..Len(deltas) |-> IF deltas[i] > 0 THEN deltas[i] ELSE 0]
        losses == [i \in 1..Len(deltas) |-> IF deltas[i] < 0 THEN -deltas[i] ELSE 0]
    IN  [avg_gain |-> Num(Sum(LastK(gains, period)), period),
         avg_loss |-> Num(Sum(LastK(losses, period)), period)]

\* the length check off by one: `len(prices) < period`
calculate_rsi_short(prices, period) ==
    IF Len(prices) < period THEN None
    ELSE LET a == Averages(prices, period)
         IN  IF a.avg_loss.n = 0 THEN Num(100, 1)
             ELSE RsiFromAverages(a.avg_gain, a.avg_loss)

\* the `avg_loss == 0` branch of lines 149-150 left out
calculate_rsi_noguard(prices, period) ==
    IF Len(prices) < period + 1 THEN None
    ELSE LET a == Averages(prices, period)
         IN  RsiFromAverages(a.avg_gain, a.avg_loss)

calculate_rsi(prices, period) ==
    IF Len(prices) < period + 1 THEN None
    ELSE LET a == Averages(prices, period)
         IN  IF a.avg_loss.n = 0 THEN Num(100, 1)
             ELSE RsiFromAverages(a.avg_gain, a.avg_loss)

(* --------------------------- order construction ----------------------- *)
\* a key that the request does not carry
Absent == [kind |-> "absent", n |-> 0, d |-> 1]

\* order_data["order"] of the request posted to the gateway
create_market_order(instrument, units, stop_loss, take_profit) ==
    [type |-> "MARKET",
     instrument |-> instrument,
     units |-> Str(units),
     timeInForce |-> "FOK",
     positionFill |-> "DEFAULT",
     stopLossOnFill |-> IF Truthy(stop_loss) THEN stop_loss ELSE Absent,
     takeProfitOnFill |-> IF Truthy(take_profit) THEN take_profit ELSE Absent]

\* lines 205-214
BuyOrder(instrument, price) ==
    LET stop_loss == Mul(Num(price, 1), Num(99, 100))
        take_profit == Mul(Num(price, 1), Num(102, 100))
    IN  create_market_order(instrument, OrderUnits, stop_loss, take_profit)

\* the Sell branch with the factors of the Buy branch
SellOrder_copied(instrument, price) ==
    LET stop_loss == Mul(Num(price, 1), Num(99, 100))
        take_profit == Mul(Num(price, 1), Num(102, 100))
    IN  create_market_order(instrument, -OrderUnits, stop_loss, take_profit)

\* lines 221-230
SellOrder(instrument, price) ==
    LET stop_loss == Mul(Num(price, 1), Num(101, 100))
        take_profit == Mul(Num(price, 1), Num(98, 100))
    IN  create_market_order(instrument, -OrderUnits, stop_loss, take_profit)

\* an order built for every decision, with units = direction * 1000 and
\* direction 0 when there is no signal
TradingLogic_always(instrument, r, s20, s50, price) ==
    IF ~IsNum(r) /\ r # None
    THEN [pc |-> "raised", posted |-> <<>>]
    ELSE IF Truthy(r) /\ Truthy(s20) /\ Truthy(s50)
    THEN IF Less(r, Num(Oversold, 1)) /\ Less(s50, s20)
         THEN [pc |-> "buy", posted |-> <<BuyOrder(instrument, price)>>]
         ELSE IF Less(Num(Overbought, 1), r) /\ Less(s20, s50)
         THEN [pc |-> "sell", posted |-> <<SellOrder(instrument, price)>>]
         ELSE [pc |-> "no_signal",
               posted |-> <<create_market_order(instrument, 0 * OrderUnits, None, None)>>]
    ELSE [pc |-> "end", posted |-> <<>>]

\* the Buy test without its SMA confirmation: `if rsi < 30:`
TradingLogic_noSma(instrument, r, s20, s50, price) ==
    IF ~IsNum(r) /\ r # None
    THEN [pc |-> "raised", posted |-> <<>>]
    ELSE IF Truthy(r) /\ Truthy(s20) /\ Truthy(s50)
    THEN IF Less(r, Num(Oversold, 1))
         THEN [pc |-> "buy", posted |-> <<BuyOrder(instrument, price)>>]
         ELSE IF Less(Num(Overbought, 1), r) /\ Less(s20, s50)
         THEN [pc |-> "sell", posted |-> <<SellOrder(instrument, price)>>]
         ELSE [pc |-> "no_signal", posted |-> <<>>]
    ELSE [pc |-> "end", posted |-> <<>>]

\* lines 191-233: the exit taken and the requests posted on the way
TradingLogic(instrument, r, s20, s50, price) ==
    IF ~IsNum(r) /\ r # None
    THEN [pc |-> "raised", posted |-> <<>>]
    ELSE IF Truthy(r) /\ Truthy(s20) /\ Truthy(s50)
    THEN IF Less(r, Num(Oversold, 1)) /\ Less(s50, s20)
         THEN [pc |-> "buy", posted |-> <<BuyOrder(instrument, price)>>]
         ELSE IF Less(Num(Overbought, 1), r) /\ Less(s20, s50)
         THEN [pc |-> "sell", posted |-> <<SellOrder(instrument, price)>>]
         ELSE [pc |-> "no_signal", posted |-> <<>>]
    ELSE [pc |-> "end", posted |-> <<>>]

(* ------------------------------ the cycle ----------------------------- *)
\* lines 170-173: the closes of the complete candles, in order
RECURSIVE ExtractCloses(_)
ExtractCloses(cs) ==
    IF cs = <<>> THEN <<>>
    ELSE IF Head(cs).complete THEN <<Head(cs).c>> \o ExtractCloses(Tail(cs))
    ELSE ExtractCloses(Tail(cs))

\* one call of simple_trading_strategy on the provider's answer
StrategyRun(candles_data, instrument) ==
    IF ~candles_data.ok
    THEN [pc |-> "no_candles", closes |-> <<>>, sma_20 |-> Unset, sma_50 |-> Unset,
          rsi |-> Unset, current_price |-> Unset, posted |-> <<>>]
    ELSE LET cl == ExtractCloses(candles_data.candles)
         IN  IF Len(cl) < MinCloses
             THEN [pc |-> "not_enough", closes |-> cl, sma_20 |-> Unset,
                   sma_50 |-> Unset, rsi |-> Unset, current_price |-> Unset,
                   posted |-> <<>>]
             ELSE LET s20 == calculate_sma(cl, SmaShort)
                      s50 == calculate_sma(cl, SmaLong)
                      r == calculate_rsi(cl, RsiPeriod)
                      price == cl[Len(cl)]
                      t == TradingLogic(instrument, r, s20, s50, price)
                  IN  [pc |-> t.pc, closes |-> cl, sma_20 |-> s20, sma_50 |-> s50,
                       rsi |-> r, current_price |-> Num(price, 1),
                       posted |-> t.posted]

(* ------------------------- the provider's answers --------------------- *)
Lens == {0, 1, 14, 15, 19, 20, 49, 50}
TailLens == {0, 1, 14, 15}
Steps == {-1, 0, 1}
LastPrices == {-1, 0, 1, MaxPrice}

\* n closes: a first run with step step1, then a jump, then a run of l2
\* closes with step step2 that ends at `last`
SeriesOf(n, l2, last, step2, jump, step1) ==
    LET e1 == IF l2 = 0 THEN last ELSE last - step2 * (l2 - 1) - jump
    IN  [i \in 1..n |-> IF i > n - l2 THEN last - step2 * (n - i)
                        ELSE e1 - step1 * (n - l2 - i)]

Series ==
    {SeriesOf(n, l2, last, step2, jump, step1) :
        n \in Lens, l2 \in TailLens, last \in LastPrices,
        step2 \in Steps, jump \in Steps, step1 \in Steps}

Complete(s) == [i \in 1..Len(s) |-> [c |-> s[i], complete |-> TRUE]]

\* what get_candles(count=50) can answer: an error body without 'candles',
\* or at most 50 candles of which only the last may still be open
Feeds ==
    {[ok |-> FALSE, candles |-> <<>>]}
    \cup {[ok |-> TRUE, candles |-> Complete(s)] : s \in {x \in Series : Len(x) <= CandleCount}}
    \cup {[ok |-> TRUE,
           candles |-> Append(Complete(s), [c |-> IF s = <<>> THEN 1 ELSE s[Len(s)],
                                            complete |-> FALSE])] :
              s \in {x \in Series : Len(x) < CandleCount}}

NoCall == [fn |-> "none", prices |-> <<>>, period |-> 0, ret |-> Unset]

Init ==
    /\ feed \in Feeds
    /\ pc = "idle"
    /\ closes = <<>>
    /\ sma_20 = Unset
    /\ sma_50 = Unset
    /\ rsi = Unset
    /\ current_price = Unset
    /\ posted = <<>>
    /\ ncycles = 0
    /\ prevCloses = <<>>
    /\ prevPosted = <<>>
    /\ call = NoCall

(* -------------------------------- actions ----------------------------- *)
\* main() line 269, run again by the operator for each evaluation cycle
simple_trading_strategy ==
    /\ ncycles < MaxCycles
    /\ LET r == StrategyRun(feed, "EUR_USD")
       IN  /\ pc' = r.pc
           /\ closes' = r.closes
           /\ sma_20' = r.sma_20
           /\ sma_50' = r.sma_50
           /\ rsi' = r.rsi
           /\ current_price' = r.current_price
           /\ posted' = r.posted
    /\ ncycles' = ncycles + 1
    /\ prevCloses' = closes
    /\ prevPosted' = posted
    /\ UNCHANGED <<feed, call>>

\* the provider: the candle that was still open closes
CandleCompletes ==
    /\ feed.ok
    /\ feed.candles # <<>>
    /\ ~feed.candles[Len(feed.candles)].complete
    /\ feed' = [feed EXCEPT !.candles[Len(feed.candles)].complete = TRUE]
    /\ UNCHANGED <<pc, closes, sma_20, sma_50, rsi, current_price, posted,
                   ncycles, prevCloses, prevPosted, call>>

\* a direct call trader.calculate_rsi(prices) with the default period
CallRsi ==
    /\ feed.ok
    /\ LET prices == ExtractCloses(feed.candles)
       IN  call' = [fn |-> "calculate_rsi", prices |-> prices, period |-> RsiPeriod,
                    ret |-> calculate_rsi(prices, RsiPeriod)]
    /\ UNCHANGED <<feed, pc, closes, sma_20, sma_50, rsi, current_price, posted,
                   ncycles, prevCloses, prevPosted>>

\* a direct call trader.calculate_sma(prices, period)
CallSma ==
    /\ feed.ok
    /\ \E period \in {SmaShort, SmaLong} :
         LET prices == ExtractCloses(feed.candles)
         IN  call' = [fn |-> "calculate_sma", prices |-> prices, period |-> period,
                      ret |-> calculate_sma(prices, period)]
    /\ UNCHANGED <<feed, pc, closes, sma_20, sma_50, rsi, current_price, posted,
                   ncycles, prevCloses, prevPosted>>

Next ==
    \/ simple_trading_strategy
    \/ CandleCompletes
    \/ CallRsi
    \/ CallSma

Spec == Init /\ [][Next]_vars

TypeOK ==
    /\ pc \in {"idle", "no_candles", "not_enough", "buy", "sell", "no_signal", "end", "raised"}
    /\ ncycles \in 0..MaxCycles
    /\ Len(posted) <= 1

(* ------------------------- vocabulary of the claims ------------------- *)
DigitVal(ch) == CHOOSE k \in 0..9 : DigitChar[k + 1] = ch

RECURSIVE ParseNat(_)
ParseNat(cs) == IF cs = <<>> THEN 0
                ELSE 10 * ParseNat(SubSeq(cs, 1, Len(cs) - 1)) + DigitVal(cs[Len(cs)])

\* int(s) of the units string of a request
ParseInt(cs) == IF cs # <<>> /\ Head(cs) = "-" THEN -ParseNat(Tail(cs)) ELSE ParseNat(cs)

StrictlyIncreasing(xs) == \A i \in 1..(Len(xs) - 1) : xs[i] < xs[i + 1]
StrictlyDecreasing(xs) == \A i \in 1..(Len(xs) - 1) : xs[i] > xs[i + 1]
Flat(xs) == \A i \in 1..(Len(xs) - 1) : xs[i] = xs[i + 1]

Hundred == Num(100, 1)
Zero == Num(0, 1)

\* a cycle has run and got past the candle check of line 165
Ran == ncycles > 0 /\ pc # "no_candles"

\* the cycle reached line 183 and read the current price
Evaluated == Ran /\ pc # "not_enough"

BuyPosted == \E i \in 1..Len(posted) : ParseInt(posted[i].units) > 0
SellPosted == \E i \in 1..Len(posted) : ParseInt(posted[i].units) < 0

BuyCondition ==
    /\ IsNum(rsi) /\ IsNum(sma_20) /\ IsNum(sma_50)
    /\ Less(rsi, Num(Oversold, 1)) /\ Less(sma_50, sma_20)

SellCondition ==
    /\ IsNum(rsi) /\ IsNum(sma_20) /\ IsNum(sma_50)
    /\ Less(Num(Overbought, 1), rsi) /\ Less(sma_20, sma_50)

(* -------------------------------- claims ------------------------------ *)
\* C1: on a series of fewer than window+1 = 15 closes calculate_rsi returns
\* None, and a cycle run on such a series submits no order.
C1_ShortSeriesUndefinedAndHold ==
    /\ (call.fn = "calculate_rsi" /\ Len(call.prices) < RsiPeriod + 1)
          => call.ret = None
    /\ (Ran /\ Len(closes) < RsiPeriod + 1)
          => (posted = <<>> /\ pc \notin {"buy", "sell"})

C1_Witness ==
    /\ call.fn = "calculate_rsi" /\ Len(call.prices) = RsiPeriod /\ call.ret = None
    /\ Ran /\ closes = call.prices /\ pc = "not_enough" /\ posted = <<>>

\* C2: on a flat series of at least window+1 closes calculate_rsi returns 50.
C2_FlatIsFifty ==
    (call.fn = "calculate_rsi" /\ Len(call.prices) >= RsiPeriod + 1 /\ Flat(call.prices))
        => call.ret = Num(50, 1)

\* C3: on a strictly increasing series longer than the window calculate_rsi
\* returns 100, on a strictly decreasing one 0, and neither divides by zero;
\* the same holds of the RSI a cycle computes.
C3_MonotoneSeries ==
    /\ (call.fn = "calculate_rsi" /\ Len(call.prices) > RsiPeriod)
          => /\ StrictlyIncreasing(call.prices) => call.ret = Hundred
             /\ StrictlyDecreasing(call.prices) => call.ret = Zero
    /\ Evaluated
          => /\ StrictlyIncreasing(closes) => rsi = Hundred
             /\ StrictlyDecreasing(closes) => rsi = Zero
             /\ pc # "raised"

C3_Witness ==
    /\ call.fn = "calculate_rsi" /\ Len(call.prices) = RsiPeriod + 1
    /\ StrictlyDecreasing(call.prices) /\ call.ret = Zero

\* C4: with the RSI defined (at least 15 closes) and the long SMA undefined
\* (fewer than 50 closes) the cycle trades on the RSI alone: rsi < 30 posts a
\* Buy with positive units and rsi > 70 a Sell with negative units.
C4_RsiOnlyFallback ==
    (Ran /\ Len(closes) >= RsiPeriod + 1 /\ Len(closes) < SmaLong)
        => LET r == calculate_rsi(closes, RsiPeriod)
           IN  /\ (IsNum(r) /\ Less(r, Num(Oversold, 1))) => BuyPosted
               /\ (IsNum(r) /\ Less(Num(Overbought, 1), r)) => SellPosted

\* C5: an RSI of exactly 0 with both SMAs defined and sma_short > sma_long is
\* treated as a defined value below 30: the cycle posts a Buy.
C5_ZeroRsiIsDefined ==
    (Evaluated /\ rsi = Zero /\ IsNum(sma_20) /\ IsNum(sma_50) /\ Less(sma_50, sma_20))
        => (pc = "buy" /\ BuyPosted)

\* C6: a cycle posts at most one order, a cycle that ends without a signal
\* posts none, and no posted order has units 0.
C6_AtMostOneNonZeroOrder ==
    /\ Len(posted) <= 1
    /\ pc \notin {"buy", "sell"} => posted = <<>>
    /\ \A i \in 1..Len(posted) : ParseInt(posted[i].units) # 0

C6_Witness ==
    /\ ncycles > 0 /\ pc = "buy" /\ Len(posted) = 1
    /\ ParseInt(posted[1].units) = OrderUnits

\* C7: for a positive current price a Buy order has units > 0 and
\* stop_loss < price < take_profit, a Sell order has units < 0 and
\* stop_loss > price > take_profit; the sign of units gives the direction.
C7_RiskSignInvariant ==
    (Evaluated /\ current_price.n > 0) =>
        /\ pc = "buy" => Len(posted) = 1
        /\ pc = "sell" => Len(posted) = 1
        /\ \A i \in 1..Len(posted) :
              LET o == posted[i]
                  sl == o.stopLossOnFill
                  tp == o.takeProfitOnFill
              IN  /\ IsNum(sl) /\ IsNum(tp)
                  /\ pc = "buy" => /\ ParseInt(o.units) > 0
                                   /\ Less(sl, current_price)
                                   /\ Less(current_price, tp)
                  /\ pc = "sell" => /\ ParseInt(o.units) < 0
                                    /\ Less(current_price, sl)
                                    /\ Less(tp, current_price)
                  /\ pc \in {"buy", "sell"}

C7_Witness ==
    /\ pc = "sell" /\ current_price.n > 0 /\ Len(posted) = 1
    /\ ParseInt(posted[1].units) < 0
    /\ Less(posted[1].takeProfitOnFill, current_price)

\* C8: a cycle whose current price is <= 0 fails with an invalid-price error
\* and posts no order.
C8_InvalidPriceRejected ==
    (Evaluated /\ current_price.n <= 0)
        => (pc = "InvalidPriceError" /\ posted = <<>>)

\* C9: each cycle has exactly one outcome among Buy order, Sell order and no
\* order; Buy only if rsi < 30 and sma_short > sma_long, Sell only if
\* rsi > 70 and sma_short < sma_long; no snapshot satisfies both; and two
\* cycles on the same closes have the same outcome.
C9_DeterministicDecision ==
    /\ Cardinality({b \in {"B", "S", "N"} :
                       \/ b = "B" /\ BuyPosted
                       \/ b = "S" /\ SellPosted
                       \/ b = "N" /\ posted = <<>>}) = 1
    /\ BuyPosted => BuyCondition
    /\ SellPosted => SellCondition
    /\ ~(BuyCondition /\ SellCondition)
    /\ (ncycles >= 2 /\ prevCloses = closes) => prevPosted = posted

C9_Witness ==
    /\ ncycles >= 2 /\ prevCloses = closes /\ BuyPosted /\ BuyCondition
    /\ prevPosted = posted

\* C10: every order a cycle posts carries both stopLossOnFill and
\* takeProfitOnFill.
C10_RiskParamsPresent ==
    \A i \in 1..Len(posted) :
        /\ posted[i].stopLossOnFill # Absent
        /\ posted[i].takeProfitOnFill # Absent

====
